---- MODULE Spec2Model ----
(***************************************************************************)
(* The Rust function templates of knative/func: the http template          *)
(* (main.rs, config.rs, handler.rs), the cloudevents template (main.rs,    *)
(* config.rs, handler.rs) and the handler of the events template.          *)
(*                                                                         *)
(* One behaviour is one process of one template.  It is either the server  *)
(* binary (main: read PORT, bind, route requests to the handler) or the    *)
(* handler called directly with a request and a HandlerConfig, as the unit *)
(* tests of the handlers call it.  The events template has no main.rs in   *)
(* the sources, so its handler is only called directly.                    *)
(***************************************************************************)
EXTENDS Integers, Sequences, FiniteSets, TLC

VARIABLES
    template,   \* which template this process is built from
    envPort,    \* the PORT environment variable as std::env::var sees it
    phase,      \* position of main, or "test" when the handler is called directly
    port,       \* the port main parsed (0 before it has one)
    config,     \* HandlerConfig.name: the name the build configures as default
    tasks       \* the requests received so far, each with its response once done

vars == <<template, envPort, phase, port, config, tasks>>

(***************************************************************************)
(* Bounds of the model.                                                    *)
(***************************************************************************)
MaxRequests == 2

(***************************************************************************)
(* JSON texts and values (serde_json).  A text is a sequence of lexical    *)
(* tokens; a value is a record [t, s, m]: its type, its scalar content and *)
(* its members (a function from keys to values, objects only).             *)
(***************************************************************************)
LBrace == [k |-> "{", v |-> ""]
RBrace == [k |-> "}", v |-> ""]
Colon == [k |-> ":", v |-> ""]
Comma == [k |-> ",", v |-> ""]
NullTok == [k |-> "null", v |-> ""]
StrTok(s) == [k |-> "str", v |-> s]
NumTok(n) == [k |-> "num", v |-> n]
\* bytes that start no JSON token (a bare word, or bytes that are not UTF-8)
Garbage == [k |-> "bad", v |-> ""]

EmptyMap == <<>>
JNull == [t |-> "null", s |-> "", m |-> EmptyMap]
JStr(s) == [t |-> "str", s |-> s, m |-> EmptyMap]
JNum(n) == [t |-> "num", s |-> n, m |-> EmptyMap]
JObj(m) == [t |-> "obj", s |-> "", m |-> m]

\* serde_json::Map::insert: a repeated key keeps the last value
Put(m, key, val) == [x \in (DOMAIN m) \cup {key} |-> IF x = key THEN val ELSE m[x]]

ParseFail == [ok |-> FALSE, val |-> JNull, next |-> 0]

RECURSIVE ParseValue(_, _)
RECURSIVE ParseMembers(_, _, _, _)

\* one JSON value starting at token i: [ok, val, next]
ParseValue(toks, i) ==
    IF i > Len(toks) THEN ParseFail
    ELSE LET tk == toks[i] IN
         CASE tk.k = "str" -> [ok |-> TRUE, val |-> JStr(tk.v), next |-> i + 1]
           [] tk.k = "num" -> [ok |-> TRUE, val |-> JNum(tk.v), next |-> i + 1]
           [] tk.k = "null" -> [ok |-> TRUE, val |-> JNull, next |-> i + 1]
           [] tk.k = "{" -> ParseMembers(toks, i + 1, EmptyMap, TRUE)
           [] OTHER -> ParseFail

\* the members of an object after its "{" (first) or after a "," (not first)
ParseMembers(toks, i, m, first) ==
    IF i > Len(toks) THEN ParseFail
    ELSE IF toks[i].k = "}" /\ first
    THEN [ok |-> TRUE, val |-> JObj(m), next |-> i + 1]
    ELSE IF toks[i].k = "str" /\ i + 1 <= Len(toks) /\ toks[i + 1].k = ":"
    THEN LET r == ParseValue(toks, i + 2) IN
         IF ~r.ok \/ r.next > Len(toks) THEN ParseFail
         ELSE LET m2 == Put(m, toks[i].v, r.val) IN
              CASE toks[r.next].k = "}" ->
                       [ok |-> TRUE, val |-> JObj(m2), next |-> r.next + 1]
                [] toks[r.next].k = "," -> ParseMembers(toks, r.next + 1, m2, FALSE)
                [] OTHER -> ParseFail
    ELSE ParseFail

\* serde_json::from_str: one value, then the end of the input
from_str(text) ==
    LET r == ParseValue(text, 1) IN
    IF r.ok /\ r.next = Len(text) + 1
    THEN [ok |-> TRUE, val |-> r.val]
    ELSE [ok |-> FALSE, val |-> JNull]

\* serde_json::from_slice: the same parser over bytes
from_slice(bytes) == from_str(bytes)

\* Value::get(key): Some(member) of an object that has the key, else None
Get(val, key) ==
    IF val.t = "obj" /\ key \in DOMAIN val.m
    THEN [some |-> TRUE, val |-> val.m[key]]
    ELSE [some |-> FALSE, val |-> JNull]

\* Value::as_str: Some(s) of a string, else None
AsStr(opt) ==
    IF opt.some /\ opt.val.t = "str"
    THEN [some |-> TRUE, s |-> opt.val.s]
    ELSE [some |-> FALSE, s |-> ""]

\* value[key] (Index<&str>): the member, Null when there is none
IndexKey(val, key) == IF Get(val, key).some THEN Get(val, key).val ELSE JNull

(***************************************************************************)
(* Serialisation of a value to a text (serde_json::to_vec, as set_json in  *)
(* the handlers' tests): the members in key order.                         *)
(***************************************************************************)
KeyOrder == <<"message", "name">>
Keys == {KeyOrder[i] : i \in DOMAIN KeyOrder}

RECURSIVE Render(_)
RECURSIVE RenderMembers(_, _, _)

RenderMembers(m, i, first) ==
    IF i > Len(KeyOrder) THEN <<>>
    ELSE IF KeyOrder[i] \in DOMAIN m
    THEN (IF first THEN <<>> ELSE <<Comma>>)
             \o <<StrTok(KeyOrder[i]), Colon>> \o Render(m[KeyOrder[i]])
             \o RenderMembers(m, i + 1, FALSE)
    ELSE RenderMembers(m, i + 1, first)

Render(val) ==
    CASE val.t = "str" -> <<StrTok(val.s)>>
      [] val.t = "num" -> <<NumTok(val.s)>>
      [] val.t = "null" -> <<NullTok>>
      [] OTHER -> <<LBrace>> \o RenderMembers(val.m, 1, TRUE) \o <<RBrace>>

(***************************************************************************)
(* The PORT environment variable and its parse as a u16 (str::parse).      *)
(***************************************************************************)
DefaultPort == 8080
U16Max == 65535

DigitChars == <<"0", "1", "2", "3", "4", "5", "6", "7", "8", "9">>

\* the value of a decimal digit, -1 for any other character
Digit(c) ==
    IF \E d \in DOMAIN DigitChars : DigitChars[d] = c
    THEN (CHOOSE d \in DOMAIN DigitChars : DigitChars[d] = c) - 1
    ELSE -1

RECURSIVE Accumulate(_, _, _)
\* the digits from position i on, added to acc; an error on a character that
\* is no digit and on a value beyond u16
Accumulate(chars, i, acc) ==
    IF i > Len(chars) THEN [ok |-> TRUE, val |-> acc]
    ELSE IF Digit(chars[i]) < 0 THEN [ok |-> FALSE, val |-> 0]
    ELSE IF acc * 10 + Digit(chars[i]) > U16Max THEN [ok |-> FALSE, val |-> 0]
    ELSE Accumulate(chars, i + 1, acc * 10 + Digit(chars[i]))

\* <u16 as FromStr>::from_str: an optional "+", then at least one digit
ParseU16(chars) ==
    IF Len(chars) = 0 THEN [ok |-> FALSE, val |-> 0]
    ELSE LET digits == IF chars[1] = "+" THEN Tail(chars) ELSE chars IN
         IF Len(digits) = 0 THEN [ok |-> FALSE, val |-> 0]
         ELSE Accumulate(digits, 1, 0)

RECURSIVE Decimal(_)
\* the decimal digits of a natural number (what a shell user writes in PORT)
Decimal(n) ==
    IF n < 10 THEN <<DigitChars[n + 1]>>
    ELSE Decimal(n \div 10) \o <<DigitChars[(n % 10) + 1]>>

EnvUnset == [set |-> FALSE, unicode |-> TRUE, chars |-> <<>>]
EnvNotUnicode == [set |-> TRUE, unicode |-> FALSE, chars |-> <<>>]
EnvStr(chars) == [set |-> TRUE, unicode |-> TRUE, chars |-> chars]

\* port numbers written in PORT, and strings that are no port number
PortNumbers == {U16Max}
NotPortStrings ==
    {Decimal(U16Max + 1), <<"-">> \o Decimal(1), <<"a", "b", "c">>, <<>>, <<"+">>}
PortEnvs ==
    {EnvUnset, EnvNotUnicode}
        \cup {EnvStr(Decimal(n)) : n \in PortNumbers}
        \cup {EnvStr(s) : s \in NotPortStrings}

\* std::env::var("PORT"): Ok(v) for a variable that is set and is valid
\* Unicode, Err for one that is not set and for one that is not Unicode
EnvVar(env) ==
    IF env.set /\ env.unicode THEN [ok |-> TRUE, v |-> env.chars]
    ELSE [ok |-> FALSE, v |-> <<>>]

\* http main: `Ok(v) => v.parse().unwrap(), Err(_) => 8080`
HttpMainPort(env) ==
    IF EnvVar(env).ok
    THEN IF ParseU16(EnvVar(env).v).ok
         THEN [next |-> "parsed", port |-> ParseU16(EnvVar(env).v).val]
         ELSE [next |-> "panic", port |-> 0]
    ELSE [next |-> "parsed", port |-> DefaultPort]

\* cloudevents main: `Ok(v) => v.parse().map_err(..)?, Err(_) => 8080`
CloudeventsMainPort(env) ==
    IF EnvVar(env).ok
    THEN IF ParseU16(EnvVar(env).v).ok
         THEN [next |-> "parsed", port |-> ParseU16(EnvVar(env).v).val]
         ELSE [next |-> "error", port |-> 0]
    ELSE [next |-> "parsed", port |-> DefaultPort]

MainPort(tpl, env) ==
    IF tpl = "http" THEN HttpMainPort(env) ELSE CloudeventsMainPort(env)

(***************************************************************************)
(* HandlerConfig and the events (cloudevents::Event).                      *)
(***************************************************************************)
Templates == {"http", "cloudevents", "events"}

\* HandlerConfig::default().name, and another name a build may configure
DefaultName == "world"
Names == {DefaultName, "bob"}

NoData == [variant |-> "none", text |-> <<>>, json |-> JNull]
Binary(text) == [variant |-> "binary", text |-> text, json |-> JNull]
String(text) == [variant |-> "string", text |-> text, json |-> JNull]
Json(val) == [variant |-> "json", text |-> <<>>, json |-> val]

\* the payload values requests carry: the empty object, the objects of one
\* string member, and a value that is no object
Objects ==
    {JObj(EmptyMap)} \cup {JObj(Put(EmptyMap, key, JStr("bootsy"))) : key \in Keys}
Values == {JNum("1")} \cup Objects
\* the payload texts: the values serialised, and texts that are no JSON (a
\* serialised object cut short before its last token, and a bare word)
Truncated(text) == SubSeq(text, 1, Len(text) - 1)
ValidTexts == {Render(val) : val \in Values}
Texts == ValidTexts \cup {Truncated(Render(val)) : val \in Objects} \cup {<<Garbage>>}
Payloads ==
    {NoData} \cup {Binary(t) : t \in Texts} \cup {String(t) : t \in Texts}
        \cup {Json(val) : val \in Values}

\* what a request with no (valid) CloudEvents attributes gives
NoEvent ==
    [valid |-> FALSE, id |-> "", source |-> "", ty |-> "", specversion |-> "",
     datacontenttype |-> "", data |-> NoData]

Attributes ==
    {[id |-> "1", source |-> "http://localhost", ty |-> "test",
      specversion |-> "1.0", datacontenttype |-> "application/json"],
     [id |-> "2", source |-> "func://handler", ty |-> "func.echo",
      specversion |-> "0.3", datacontenttype |-> "text/plain"]}

ValidEvents ==
    {[valid |-> TRUE, id |-> a.id, source |-> a.source, ty |-> a.ty,
      specversion |-> a.specversion, datacontenttype |-> a.datacontenttype,
      data |-> d] : a \in Attributes, d \in Payloads}

(***************************************************************************)
(* Responses.                                                              *)
(***************************************************************************)
StatusOk == 200
BadRequest == 400
NotFound == 404
MethodNotAllowed == 405
\* the status of an actix_web::Error made from a serde_json::Error by `?`:
\* its ResponseError keeps the default status
JsonErrorStatus == 500

NoResponse == [kind |-> "none", status |-> 0, body |-> "", event |-> NoEvent]
HttpResponse(status, body) ==
    [kind |-> "http", status |-> status, body |-> body, event |-> NoEvent]
EventResponse(event) ==
    [kind |-> "event", status |-> StatusOk, body |-> "", event |-> event]
ErrorResponse(status) ==
    [kind |-> "error", status |-> status, body |-> "", event |-> NoEvent]
\* the request's task panicked: no response is written
Panicked == [kind |-> "panic", status |-> 0, body |-> "", event |-> NoEvent]

(***************************************************************************)
(* The handlers.                                                           *)
(***************************************************************************)
Methods == {"GET", "POST", "PUT"}
Queries == {"", "test=param&message=hello"}

\* index with the query string echoed for every method
IndexEchoAnyMethod(method, query, name) ==
    IF query # ""
    THEN HttpResponse(StatusOk, query)
    ELSE IF method = "GET"
    THEN HttpResponse(StatusOk, "Hello " \o name \o "!\n")
    ELSE HttpResponse(StatusOk, "Thanks " \o name \o "!\n")

\* http handler.rs, index
Index(method, query, name) ==
    IF method = "GET"
    THEN IF query # ""
         THEN HttpResponse(StatusOk, query)
         ELSE HttpResponse(StatusOk, "Hello " \o name \o "!\n")
    ELSE HttpResponse(StatusOk, "Thanks " \o name \o "!\n")

\* input.get("message").and_then(|v| v.as_str()).unwrap_or(&config.name)
MessageOr(val, name) ==
    IF AsStr(Get(val, "message")).some THEN AsStr(Get(val, "message")).s ELSE name

\* the match on event.data() with the default name written out for None
CloudeventsMessageHardcoded(data, name) ==
    CASE data.variant = "binary" ->
             LET input == from_slice(data.text) IN
             IF input.ok THEN [ok |-> TRUE, s |-> MessageOr(input.val, name)]
             ELSE [ok |-> FALSE, s |-> ""]
      [] data.variant = "string" ->
             LET input == from_str(data.text) IN
             IF input.ok THEN [ok |-> TRUE, s |-> MessageOr(input.val, name)]
             ELSE [ok |-> FALSE, s |-> ""]
      [] data.variant = "json" -> [ok |-> TRUE, s |-> MessageOr(data.json, name)]
      [] OTHER -> [ok |-> TRUE, s |-> DefaultName]

\* cloudevents handler.rs, the match on event.data(): the message, or the
\* serde_json error that `?` returns
CloudeventsMessage(data, name) ==
    CASE data.variant = "binary" ->
             LET input == from_slice(data.text) IN
             IF input.ok THEN [ok |-> TRUE, s |-> MessageOr(input.val, name)]
             ELSE [ok |-> FALSE, s |-> ""]
      [] data.variant = "string" ->
             LET input == from_str(data.text) IN
             IF input.ok THEN [ok |-> TRUE, s |-> MessageOr(input.val, name)]
             ELSE [ok |-> FALSE, s |-> ""]
      [] data.variant = "json" -> [ok |-> TRUE, s |-> MessageOr(data.json, name)]
      [] OTHER -> [ok |-> TRUE, s |-> name]

\* EventBuilderV10::from(event): the attributes of the event as version 1.0
\* attributes, and its data
EventBuilderV10From(event) == [event EXCEPT !.specversion = "1.0"]

\* the builder without the call of .ty(..)
BuildKeepType(builder, source, ty, contenttype, payload) ==
    [builder EXCEPT !.source = source,
                    !.datacontenttype = contenttype, !.data = Json(payload)]

\* .source(..).ty(..).data(content type, json).build()
Build(builder, source, ty, contenttype, payload) ==
    [builder EXCEPT !.source = source, !.ty = ty,
                    !.datacontenttype = contenttype, !.data = Json(payload)]

\* cloudevents handler.rs, handle.  The serde_json error becomes an
\* actix_web::Error through `?`.  build() has its id, source and type, so
\* it does not fail.
CloudeventsHandle(event, name) ==
    LET message == CloudeventsMessage(event.data, name) IN
    IF message.ok
    THEN EventResponse(
             Build(EventBuilderV10From(event), "func://handler", "func.echo",
                   "application/json", JObj([message |-> JStr(message.s)])))
    ELSE ErrorResponse(JsonErrorStatus)

\* events handler.rs, the `let input = ...`: unwrap panics on a parse error
EventsInput(data) ==
    IF data.variant = "binary"
    THEN from_slice(data.text)
    ELSE [ok |-> TRUE, val |-> JObj([name |-> JStr("world")])]

\* events handler.rs, handle: to_event fails on a request that is no event
EventsHandle(event) ==
    IF ~event.valid THEN ErrorResponse(BadRequest)
    ELSE LET input == EventsInput(event.data) IN
         IF input.ok
         THEN EventResponse(
                  Build(EventBuilderV10From(event), "func://handler", "func.example",
                        "application/json", JObj([hello |-> IndexKey(input.val, "name")])))
         ELSE Panicked

\* the response of the template's handler to one request; the Event
\* extractor of the cloudevents template answers a request that is no event
Respond(tpl, task, name) ==
    CASE tpl = "http" -> Index(task.method, task.query, name)
      [] tpl = "cloudevents" ->
             IF task.event.valid THEN CloudeventsHandle(task.event, name)
             ELSE ErrorResponse(BadRequest)
      [] OTHER -> EventsHandle(task.event)

(***************************************************************************)
(* The routing tables of main.                                             *)
(***************************************************************************)
HealthPaths == {"/health/readiness", "/health/liveness"}
Paths == {"/", "/health"} \cup HealthPaths

\* the http routes with the health pattern matching readiness only
HttpRouteReadinessOnly(method, path) ==
    CASE path = "/" /\ method = "GET" -> "handler"
      [] path = "/" /\ method = "POST" -> "handler"
      [] path = "/health/readiness" /\ method = "GET" -> "ok"
      [] OTHER -> "not_found"

HttpRoute(method, path) ==
    CASE path = "/" /\ method = "GET" -> "handler"
      [] path = "/" /\ method = "POST" -> "handler"
      [] path \in HealthPaths /\ method = "GET" -> "ok"
      [] OTHER -> "not_found"

\* the cloudevents routes with GET on "/" given to the handler too
CloudeventsRouteGetToHandler(method, path) ==
    CASE path = "/" /\ method = "POST" -> "handler"
      [] path = "/" /\ method = "GET" -> "handler"
      [] path \in HealthPaths /\ method = "GET" -> "ok"
      [] OTHER -> "not_found"

CloudeventsRoute(method, path) ==
    CASE path = "/" /\ method = "POST" -> "handler"
      [] path = "/" /\ method = "GET" -> "method_not_allowed"
      [] path \in HealthPaths /\ method = "GET" -> "ok"
      [] OTHER -> "not_found"

Route(tpl, method, path) ==
    IF tpl = "http" THEN HttpRoute(method, path) ELSE CloudeventsRoute(method, path)

\* the response of a route that is not the handler
Fixed(target) ==
    CASE target = "ok" -> HttpResponse(StatusOk, "")
      [] target = "method_not_allowed" -> HttpResponse(MethodNotAllowed, "")
      [] OTHER -> HttpResponse(NotFound, "")

(***************************************************************************)
(* The process.                                                            *)
(***************************************************************************)
\* The http handler and the events handler are also called directly: the
\* routes pass only GET and POST to index, and the events template has no
\* main in the sources.
Init ==
    /\ template \in Templates
    /\ phase \in CASE template = "http" -> {"boot", "test"}
                   [] template = "cloudevents" -> {"boot"}
                   [] OTHER -> {"test"}
    /\ envPort \in IF phase = "boot" THEN PortEnvs ELSE {EnvUnset}
    /\ port = 0
    /\ config \in Names
    /\ tasks = <<>>

\* main up to the port: PORT is read and parsed
Startup ==
    /\ phase = "boot"
    /\ phase' = MainPort(template, envPort).next
    /\ port' = MainPort(template, envPort).port
    /\ UNCHANGED <<template, envPort, config, tasks>>

\* .bind((addr, port))?.run(): the socket is bound, or bind's error ends main
Bind ==
    /\ phase = "parsed"
    /\ phase' \in {"serving", "error"}
    /\ UNCHANGED <<template, envPort, port, config, tasks>>

\* the queries and events the requests of a template carry
QueriesOf(tpl) == IF tpl = "http" THEN Queries ELSE {""}
EventsOf(tpl) == IF tpl = "http" THEN {NoEvent} ELSE ValidEvents \cup {NoEvent}

NewTask(via, method, path, query, event, target) ==
    [via |-> via, method |-> method, path |-> path, query |-> query,
     event |-> event, target |-> target,
     pc |-> IF target = "handler" THEN "handler" ELSE "done",
     resp |-> IF target = "handler" THEN NoResponse ELSE Fixed(target)]

\* the server takes a request and routes it by method and path: to the
\* handler, whose task then waits to run, or to a fixed response
Receive(method, path, query) ==
    /\ phase = "serving"
    /\ Len(tasks) < MaxRequests
    /\ tasks' = Append(tasks,
                       NewTask("route", method, path, query, NoEvent,
                               Route(template, method, path)))
    /\ UNCHANGED <<template, envPort, phase, port, config>>

\* the handler storing the message it answered in the shared HandlerConfig
HandleStoring(i) ==
    /\ tasks[i].pc = "handler"
    /\ \E event \in EventsOf(template) :
           LET task == [tasks[i] EXCEPT !.event = event]
               resp == Respond(template, task, config) IN
           /\ tasks' = [tasks EXCEPT ![i] = [task EXCEPT !.pc = "done", !.resp = resp]]
           /\ config' = IF template = "cloudevents" /\ resp.kind = "event"
                        THEN resp.event.data.json.m["message"].s
                        ELSE config
    /\ UNCHANGED <<template, envPort, phase, port>>

\* request i is served: the event is read from the request (event
\* templates), the handler runs on it and its response is written
Handle(i) ==
    /\ tasks[i].pc = "handler"
    /\ \E event \in EventsOf(template) :
           LET task == [tasks[i] EXCEPT !.event = event] IN
           tasks' = [tasks EXCEPT ![i] = [task EXCEPT !.pc = "done",
                                                      !.resp = Respond(template, task, config)]]
    /\ UNCHANGED <<template, envPort, phase, port, config>>

\* the handler is called directly and awaited, as its unit tests call it
Call(method, query) ==
    /\ phase = "test"
    /\ Len(tasks) < MaxRequests
    /\ template = "events" => method = "POST"
    /\ \E event \in EventsOf(template) :
           LET task == NewTask("direct", method, "/", query, event, "handler") IN
           tasks' = Append(tasks,
                           [task EXCEPT !.pc = "done",
                                        !.resp = Respond(template, task, config)])
    /\ UNCHANGED <<template, envPort, phase, port, config>>

Next ==
    \/ Startup
    \/ Bind
    \/ \E method \in Methods, path \in Paths, query \in QueriesOf(template) :
           Receive(method, path, query)
    \/ \E i \in DOMAIN tasks : Handle(i)
    \/ \E method \in Methods, query \in QueriesOf(template) : Call(method, query)

Spec == Init /\ [][Next]_vars

(***************************************************************************)
(* The properties.                                                         *)
(***************************************************************************)
EventTemplates == {"cloudevents", "events"}
\* the field a handler reads from the payload, and the one it writes
InputKey(tpl) == IF tpl = "cloudevents" THEN "message" ELSE "name"
OutputKey(tpl) == IF tpl = "cloudevents" THEN "message" ELSE "hello"

\* the requests on which the handler of an event template has run
Handled ==
    {i \in DOMAIN tasks :
        /\ template \in EventTemplates
        /\ tasks[i].target = "handler"
        /\ tasks[i].event.valid
        /\ tasks[i].pc = "done"}

\* the payload of the event is the JSON value val, in one of the variants
Carries(event, val) ==
    \/ event.data = Json(val)
    \/ event.data = Binary(Render(val))
    \/ event.data = String(Render(val))

HasField(val, key) == val.t = "obj" /\ key \in DOMAIN val.m

Succeeded(i) == tasks[i].resp.kind = "event" /\ tasks[i].resp.status = 200

\* the output field of the outbound payload
OutField(i) ==
    LET payload == tasks[i].resp.event.data.json IN
    IF OutputKey(template) \in DOMAIN payload.m
    THEN payload.m[OutputKey(template)]
    ELSE [t |-> "missing", s |-> "", m |-> EmptyMap]

\* C1 (as claimed): whenever the payload of the inbound event, in the binary,
\* the string or the JSON variant, is a JSON object whose input field
\* ("message" in cloudevents, "name" in events) is a string s, the handler
\* succeeds and the output field of the outbound payload is s.
C1_EchoesStringField ==
    \A i \in Handled : \A val \in Objects :
        /\ Carries(tasks[i].event, val)
        /\ HasField(val, InputKey(template))
        /\ val.m[InputKey(template)].t = "str"
        => /\ Succeeded(i)
           /\ OutField(i) = JStr(val.m[InputKey(template)].s)

\* C2 (as claimed): whenever the string or binary payload of the inbound
\* event is not valid JSON, the invocation ends in a client error (a 4xx
\* status): no success, no 5xx, no panic of the request's task.
C2_MalformedIsClientError ==
    \A i \in Handled :
        /\ tasks[i].event.data.variant \in {"binary", "string"}
        /\ tasks[i].event.data.text \notin ValidTexts
        => /\ tasks[i].resp.kind = "error"
           /\ tasks[i].resp.status \in 400..499

\* C3 (as claimed, for the default configuration): whenever the payload
\* parses to a JSON value without the input field of the template, the
\* handler succeeds and the output field is the configured default name,
\* HandlerConfig.name, which is "world" under the default configuration.
C3_MissingFieldGivesDefault ==
    config = DefaultName =>
        \A i \in Handled : \A val \in Values :
            /\ Carries(tasks[i].event, val)
            /\ ~HasField(val, InputKey(template))
            => /\ Succeeded(i)
               /\ OutField(i) = JStr("world")

C5_IndexBody ==
    \A i \in DOMAIN tasks :
        /\ template = "http"
        /\ tasks[i].target = "handler"
        /\ tasks[i].pc = "done"
        => /\ tasks[i].resp.kind = "http"
           /\ tasks[i].resp.status = 200
           /\ tasks[i].resp.body =
                  IF tasks[i].method = "GET"
                  THEN IF tasks[i].query = ""
                       THEN IF config = "world" THEN "Hello world!\n" ELSE "Hello bob!\n"
                       ELSE tasks[i].query
                  ELSE IF config = "world" THEN "Thanks world!\n" ELSE "Thanks bob!\n"

C5_Witness ==
    /\ template = "http"
    /\ config = "bob"
    /\ \E i, j \in DOMAIN tasks :
           /\ tasks[i].pc = "done" /\ tasks[j].pc = "done"
           /\ tasks[i].method = "GET" /\ tasks[i].query # ""
           /\ tasks[i].resp.body = tasks[i].query
           /\ tasks[j].method = "PUT" /\ tasks[j].query # ""
           /\ tasks[j].resp.body = "Thanks bob!\n"

\* C6 (as claimed): in the http and in the cloudevents template, every GET
\* and every POST on "/" is routed to the handler.
C6_RootAlwaysHandler ==
    \A i \in DOMAIN tasks :
        /\ tasks[i].via = "route"
        /\ tasks[i].path = "/"
        /\ tasks[i].method \in {"GET", "POST"}
        => tasks[i].target = "handler"

\* C6 (amended): in the http template every GET and every POST on "/" is
\* routed to handler::index; in the cloudevents template every POST on "/"
\* is routed to handler::handle, and every GET on "/" is answered 405 by the
\* routing table without the handler.
C6_RootRouting ==
    \A i \in DOMAIN tasks :
        /\ tasks[i].via = "route"
        /\ tasks[i].path = "/"
        /\ tasks[i].method \in {"GET", "POST"}
        => IF template = "cloudevents" /\ tasks[i].method = "GET"
           THEN /\ tasks[i].target = "method_not_allowed"
                /\ tasks[i].pc = "done"
                /\ tasks[i].resp.status = 405
           ELSE tasks[i].target = "handler"

C6_Witness ==
    /\ template = "cloudevents"
    /\ \E i, j \in DOMAIN tasks :
           /\ tasks[i].via = "route" /\ tasks[i].path = "/" /\ tasks[i].method = "GET"
           /\ tasks[i].resp.status = 405
           /\ tasks[j].via = "route" /\ tasks[j].path = "/" /\ tasks[j].method = "POST"
           /\ tasks[j].target = "handler"

\* C7 (as claimed): with PORT unset the server listens on 8080; with PORT set
\* to a port number it listens on that port; with PORT set to a value that
\* is no port number the server never listens.
C7_PortSelection ==
    phase # "test" =>
        /\ ~envPort.set /\ phase = "serving" => port = 8080
        /\ \A n \in PortNumbers :
               envPort = EnvStr(Decimal(n)) /\ phase = "serving" => port = n
        /\ envPort.set /\ envPort \notin {EnvStr(Decimal(n)) : n \in PortNumbers}
               => phase # "serving"

\* C8: in both server templates a GET on /health/readiness or
\* /health/liveness is answered 200 by the routing table: the handler is not
\* run, no body or event is read, and the response is the same for every
\* configuration and whatever else the server is doing.
C8_HealthAlwaysOk ==
    \A i \in DOMAIN tasks :
        /\ tasks[i].via = "route"
        /\ tasks[i].method = "GET"
        /\ tasks[i].path \in {"/health/readiness", "/health/liveness"}
        => /\ tasks[i].target = "ok"
           /\ tasks[i].pc = "done"
           /\ tasks[i].event = NoEvent
           /\ tasks[i].resp =
                  [kind |-> "http", status |-> 200, body |-> "", event |-> NoEvent]

C8_Witness ==
    /\ template = "cloudevents"
    /\ config = "bob"
    /\ \E i, j \in DOMAIN tasks :
           /\ tasks[i].target = "handler" /\ tasks[i].pc = "handler"
           /\ tasks[j].method = "GET" /\ tasks[j].path = "/health/liveness"
           /\ tasks[j].resp.status = 200

\* C9 (as claimed): the outbound event of a successful invocation keeps the
\* id and the spec version of the inbound event, has source
\* "func://handler" and the type of the template whatever the inbound source
\* and type, and carries content type application/json and a JSON object
\* with exactly one key, the output key.
C9_KeepsIdentity ==
    \A i \in Handled :
        Succeeded(i) =>
            LET in == tasks[i].event
                out == tasks[i].resp.event IN
            /\ out.id = in.id
            /\ out.specversion = in.specversion
            /\ out.source = "func://handler"
            /\ out.ty = IF template = "cloudevents" THEN "func.echo" ELSE "func.example"
            /\ out.datacontenttype = "application/json"
            /\ out.data.variant = "json"
            /\ out.data.json.t = "obj"
            /\ DOMAIN out.data.json.m = {OutputKey(template)}

\* C9 (amended): the outbound event of a successful invocation keeps the id
\* of the inbound event and has spec version 1.0 whatever the inbound spec
\* version; source, type, content type and payload are as claimed.
C9_OutboundEnvelope ==
    \A i \in Handled :
        Succeeded(i) =>
            LET in == tasks[i].event
                out == tasks[i].resp.event IN
            /\ out.id = in.id
            /\ out.specversion = "1.0"
            /\ out.source = "func://handler"
            /\ out.ty = IF template = "cloudevents" THEN "func.echo" ELSE "func.example"
            /\ out.datacontenttype = "application/json"
            /\ out.data.variant = "json"
            /\ out.data.json.t = "obj"
            /\ DOMAIN out.data.json.m = {OutputKey(template)}

C9_Witness ==
    \E i \in Handled :
        /\ Succeeded(i)
        /\ tasks[i].event.specversion = "0.3"
        /\ tasks[i].event.ty = "func.echo"
        /\ template = "events"
        /\ tasks[i].resp.event.ty = "func.example"
        /\ tasks[i].resp.event.id = "2"

\* the response a request gets when it is the only request of the server
Alone(task) ==
    IF task.target = "handler"
    THEN Respond(template, [task EXCEPT !.pc = "handler", !.resp = NoResponse], config)
    ELSE Fixed(task.target)

\* C10: under every interleaving of the requests in flight, HandlerConfig is
\* never modified, and the response of each request is the response the
\* request gets when handled alone: it depends on that request and the
\* configuration only.
C10_Isolation ==
    /\ [](\A i \in DOMAIN tasks : tasks[i].pc = "done" => tasks[i].resp = Alone(tasks[i]))
    /\ [][config' = config]_vars

C10_Witness ==
    \E i, j \in DOMAIN tasks :
        /\ i < j
        /\ tasks[i].via = "route" /\ tasks[i].pc = "handler"
        /\ tasks[j].via = "route" /\ tasks[j].target = "handler" /\ tasks[j].pc = "done"
====
